---- MODULE Spec2Model ----
(***************************************************************************)
(* Model of nn/MLP.py: the MLP object (its weight matrices W), inference   *)
(* (compute_output) and the training loop of train_backprop, stepped at    *)
(* the granularity of one batch update and one end-of-epoch evaluation.    *)
(*                                                                         *)
(* Numbers: numpy floats are modelled in fixed point with unit 1, that is  *)
(* as integers; a float division is the integer division \div.  The        *)
(* stop_threshold is held in percent, so (1 - stop_threshold) * c > m is   *)
(* (100 - pct) * c > 100 * m.  A matrix is a sequence of rows, each row a  *)
(* sequence of integers; Python's None is the empty sequence <<>> and a    *)
(* value v that may be None is <<v>>.  Example indices are 1-based; the    *)
(* batch offset i_in_batch and the epoch index n_iter are 0-based as in    *)
(* the source.                                                             *)
(***************************************************************************)
EXTENDS Integers, Sequences, FiniteSets, TLC

VARIABLES net, shuffles

vars == <<net, shuffles>>

(***************************************************************************)
(* Bounds of the model.                                                    *)
(***************************************************************************)
MaxCalls == 2
MaxIter == 4
MaxN == 3

(***************************************************************************)
(* numpy helpers                                                           *)
(***************************************************************************)
Min2(a, b) == IF a <= b THEN a ELSE b

Max2(a, b) == IF a >= b THEN a ELSE b

Abs(a) == IF a < 0 THEN -a ELSE a

RECURSIVE SumSeq(_)
SumSeq(s) == IF s = <<>> THEN 0 ELSE Head(s) + SumSeq(Tail(s))

RECURSIVE MinSeq(_)
MinSeq(s) == IF Len(s) = 1 THEN s[1] ELSE Min2(Head(s), MinSeq(Tail(s)))

Rows(M) == Len(M)

Cols(M) == IF Len(M) = 0 THEN 0 ELSE Len(M[1])

Shape(M) == <<Rows(M), Cols(M)>>

\* an array held by value: every entry is computed once, when the array is built
Vec(v) == v \o <<>>

Mat(M) == Vec([i \in 1..Len(M) |-> Vec(M[i])])

Zeros(r, c) == Mat([i \in 1..r |-> [j \in 1..c |-> 0]])

Ones(r, c) == Mat([i \in 1..r |-> [j \in 1..c |-> 1]])

\* np.c_[np.ones(M.shape[0]), M]
CBindOnes(M) == Mat([i \in 1..Rows(M) |-> <<1>> \o M[i]])

\* M.T for a matrix of shape (r, c), c > 0
Transpose(M) == Mat([j \in 1..Cols(M) |-> [i \in 1..Rows(M) |-> M[i][j]]])

\* np.dot(A, B) is defined when A's column count is B's row count
DotOK(A, B) == Cols(A) = Rows(B)

Dot(A, B) ==
  Mat([i \in 1..Rows(A) |-> [j \in 1..Cols(B) |->
      SumSeq([k \in 1..Cols(A) |-> A[i][k] * B[k][j]])]])

\* elementwise operations on matrices of equal shape
MatSub(A, B) == Mat([i \in 1..Rows(A) |-> [j \in 1..Cols(A) |-> A[i][j] - B[i][j]]])

MatAdd(A, B) == Mat([i \in 1..Rows(A) |-> [j \in 1..Cols(A) |-> A[i][j] + B[i][j]]])

MatMul(A, B) == Mat([i \in 1..Rows(A) |-> [j \in 1..Cols(A) |-> A[i][j] * B[i][j]]])

MatScale(k, A) == Mat([i \in 1..Rows(A) |-> [j \in 1..Cols(A) |-> k * A[i][j]]])

MatDiv(A, k) == Mat([i \in 1..Rows(A) |-> [j \in 1..Cols(A) |-> A[i][j] \div k]])

\* M[1:, :]
DropFirstRow(M) == Tail(M)

\* M[:, 0] = 0
ZeroFirstCol(M) ==
  Mat([i \in 1..Rows(M) |-> [j \in 1..Cols(M) |-> IF j = 1 THEN 0 ELSE M[i][j]]])

\* s.reshape((r, c)) of a flat vector of r * c numbers
Reshape(s, r, c) == Mat([i \in 1..r |-> [j \in 1..c |-> s[(i - 1) * c + j]]])

\* M[idx, :]: the rows of M picked by the index list idx
TakeRows(M, idx) == Mat([i \in 1..Len(idx) |-> M[idx[i]]])

\* s[a:b] for a 0-based half-open slice of a list of length Len(s)
Slice(s, a, b) == SubSeq(s, a + 1, Min2(b, Len(s)))

(***************************************************************************)
(* The injected pure functions.  The caller supplies the activation        *)
(* functions, their derivatives, the goal and its derivative, the          *)
(* regularization norm and its derivative, and rng; the model fixes one    *)
(* integer-valued instance of each.                                        *)
(***************************************************************************)
ClipAt == 2

\* activation of every layer: the hard tanh, clip(z, -ClipAt, ClipAt)
f_list(i_layer, z) ==
  Mat([i \in 1..Rows(z) |-> [j \in 1..Cols(z) |->
      Max2(-ClipAt, Min2(ClipAt, z[i][j]))]])

\* its derivative
d_f_list(i_layer, z) ==
  Mat([i \in 1..Rows(z) |-> [j \in 1..Cols(z) |->
      IF -ClipAt < z[i][j] /\ z[i][j] < ClipAt THEN 1 ELSE 0]])

\* goal(targets, outputs): one cost per example, the squared distance
goal(t, y) ==
  Vec([i \in 1..Rows(t) |->
      SumSeq([j \in 1..Cols(t) |-> (t[i][j] - y[i][j]) * (t[i][j] - y[i][j])])])

\* cv_goal when the caller passes one of its own: the absolute distance
abs_goal(t, y) ==
  Vec([i \in 1..Rows(t) |-> SumSeq([j \in 1..Cols(t) |-> Abs(t[i][j] - y[i][j])])])

\* d_goal(targets, outputs): the residual, for both d_xeuclidian and d_cross_entropy
d_goal(t, y) == MatSub(y, t)

\* regularization_norm(m): the L1 norm of a weight matrix
regularization_norm(m) ==
  SumSeq([i \in 1..Rows(m) |-> SumSeq([j \in 1..Cols(m) |-> Abs(m[i][j])])])

\* d_regularization_norm(m): its derivative, the sign of every weight
d_regularization_norm(m) ==
  Mat([i \in 1..Rows(m) |-> [j \in 1..Cols(m) |->
      IF m[i][j] > 0 THEN 1 ELSE IF m[i][j] < 0 THEN -1 ELSE 0]])

\* rng(n): a vector of n numbers; seed picks one of the three possible phases
rng(seed, n) == Vec([k \in 1..n |-> ((k + seed) % 3) - 1])

\* Helpers.neuron_local_gain_update(gain, c, bonus, penalty, min, max):
\* where c (the new delta agrees in sign with the last one) the gain grows by
\* bonus up to max, elsewhere it shrinks by penalty down to min
neuron_local_gain_update(gain, c, nlg_bonus, nlg_penalty, nlg_min, nlg_max) ==
  Mat([i \in 1..Rows(gain) |-> [j \in 1..Cols(gain) |->
      IF c[i][j] THEN Min2(gain[i][j] + nlg_bonus, nlg_max)
                 ELSE Max2(gain[i][j] - nlg_penalty, nlg_min)]])

(***************************************************************************)
(* MLP.__init__                                                            *)
(***************************************************************************)
\* the dimension taken from the layer's own neuron count
LayerDimensionOwn(input_dimension, layers_structure, i) ==
  1 + (IF i = 1 THEN input_dimension ELSE layers_structure[i])

\* dimension = 1 + (input_dimension if i == 0 else layers_structure[i - 1])
LayerDimension(input_dimension, layers_structure, i) ==
  1 + (IF i = 1 THEN input_dimension ELSE layers_structure[i - 1])

\* self.W after the constructor's loop
InitW(input_dimension, layers_structure, seed) ==
  Vec([i \in 1..Len(layers_structure) |->
      LET neurons == layers_structure[i]
          dimension == LayerDimension(input_dimension, layers_structure, i)
      IN Reshape(rng(seed, neurons * dimension), neurons, dimension)])

(***************************************************************************)
(* MLP.compute_output                                                      *)
(***************************************************************************)
\* input_data after the loop body has run for the layers 1..i
RECURSIVE LayerOutput(_, _, _)
LayerOutput(W, input_data, i) ==
  IF i = 0 THEN input_data
  ELSE LET out == f_list(i, Dot(LayerOutput(W, input_data, i - 1), Transpose(W[i])))
       IN IF i # Len(W) THEN CBindOnes(out) ELSE out

\* the result of a call: err (the exception was raised), value (the returned
\* matrix), n_eval (how many layers were evaluated)
compute_output(W, input_data, add_bias) ==
  LET x == IF add_bias THEN CBindOnes(input_data) ELSE input_data
  IN IF Cols(x) # Cols(W[1])
     THEN [err |-> TRUE, value |-> <<>>, n_eval |-> 0]
     ELSE [err |-> FALSE, value |-> LayerOutput(W, x, Len(W)), n_eval |-> Len(W)]

(***************************************************************************)
(* MLP.train_backprop: one batch (forward pass, backward pass, update)     *)
(***************************************************************************)
\* tmp_data, the input fed to layer i in the forward pass
RECURSIVE ForwardIn(_, _, _)
ForwardIn(W, batch_data, i) ==
  IF i = 1 THEN batch_data
  ELSE CBindOnes(f_list(i - 1,
           Dot(ForwardIn(W, batch_data, i - 1), Transpose(W[i - 1]))))

\* np.dot raises ValueError at the first layer whose input width is not the
\* layer's column count
RECURSIVE ForwardOK(_, _, _)
ForwardOK(W, batch_data, i) ==
  IF i = 0 THEN TRUE
  ELSE /\ ForwardOK(W, batch_data, i - 1)
       /\ DotOK(ForwardIn(W, batch_data, i), Transpose(W[i]))

\* the lists z and f_z after the forward pass
ForwardPass(W, batch_data) ==
  LET z == Vec([i \in 1..Len(W) |->
                   Dot(ForwardIn(W, batch_data, i), Transpose(W[i]))])
  IN [z |-> z, f_z |-> Vec([i \in 1..Len(W) |-> f_list(i, z[i])])]

\* dE_dz of layer i in the backward pass
RECURSIVE dE_dz(_, _, _, _, _)
dE_dz(W, fw, target_batch, d_goal_name, i) ==
  IF i = Len(W)
  THEN IF d_goal_name = "d_cross_entropy"
       THEN d_goal(target_batch, fw.f_z[i])
       ELSE MatMul(d_goal(target_batch, fw.f_z[i]), d_f_list(i, fw.z[i]))
  ELSE MatMul(
         Transpose(Dot(DropFirstRow(Transpose(W[i + 1])),
                       Transpose(dE_dz(W, fw, target_batch, d_goal_name, i + 1)))),
         d_f_list(i, fw.z[i]))

\* nabla_W after the backward pass
BackwardPass(W, fw, batch_data, target_batch, d_goal_name, batch_size) ==
  Vec([i \in 1..Len(W) |->
      LET layer_input_data == IF i = 1 THEN batch_data ELSE CBindOnes(fw.f_z[i - 1])
      IN MatDiv(Transpose(Dot(Transpose(layer_input_data),
                              dE_dz(W, fw, target_batch, d_goal_name, i))),
                batch_size)])

\* delta_W of one layer; nlg is <<>> (None) or <<the layer's gain matrix>>
DeltaW(Wi, last_delta_Wi, nabla_Wi, nlg, a) ==
  LET regularization_penalty == ZeroFirstCol(d_regularization_norm(Wi))
      inner == MatAdd(MatAdd(MatScale(a.momentum_rate, last_delta_Wi), nabla_Wi),
                      IF a.regularization
                      THEN MatScale(a.regularization_rate, regularization_penalty)
                      ELSE Zeros(Rows(Wi), Cols(Wi)))
  IN IF nlg = <<>> THEN MatScale(a.learning_rate, inner)
     ELSE MatMul(MatScale(a.learning_rate, nlg[1]), inner)

\* nlg of one layer after the update
NlgUpdate(nlg_i, delta_W, last_delta_Wi, g) ==
  LET c == Mat([i \in 1..Rows(delta_W) |-> [j \in 1..Cols(delta_W) |->
               delta_W[i][j] * last_delta_Wi[i][j] >= 0]])
  IN neuron_local_gain_update(nlg_i, c, g[1], g[2], g[3], g[4])

\* the slice without its upper end, idx_data[i_in_batch:]
BatchIdxOpenEnded(idx_data, i_in_batch, batch_size) ==
  Slice(idx_data, i_in_batch, Len(idx_data))

\* idx_data[i_in_batch:(i_in_batch + batch_size)]
BatchIdx(idx_data, i_in_batch, batch_size) ==
  Slice(idx_data, i_in_batch, i_in_batch + batch_size)

\* range(0, n, step) for step > 0
RangeStep(n, step) == Vec([k \in 1..((n + step - 1) \div step) |-> (k - 1) * step])

\* targets taken from the cross-validation set whenever there is one
BatchTargetsFromCv(s, idx) ==
  TakeRows(IF s.do_cv THEN s.a.cv_output_data[1] ELSE s.a.output_data, idx)

\* output_data[idx_data[i_in_batch:(i_in_batch + batch_size)], :]
BatchTargets(s, idx) == TakeRows(s.a.output_data, idx)

\* the weights the forward pass of a batch reads
ForwardWeights(s) == s.W

\* the body of "for i_in_batch in idx_batch" for the next batch
BatchStep(s) ==
  LET a == s.a
      i_in_batch == s.idx_batch[s.k_batch + 1]
      idx == BatchIdx(s.idx_data, i_in_batch, s.batch_size)
      batch_data == TakeRows(s.input_data, idx)
      target_batch == BatchTargets(s, idx)
      Wf == ForwardWeights(s)
  IN IF ~ForwardOK(Wf, batch_data, Len(Wf))
     THEN [s EXCEPT !.pc = "idle",
                    !.ret = [kind |-> "ValueError", call |-> "train_backprop",
                             cost |-> <<>>, cv_cost |-> <<>>, value |-> <<>>,
                             n_eval |-> 0]]
     ELSE
       LET fw == ForwardPass(Wf, batch_data)
           nabla_W == BackwardPass(Wf, fw, batch_data, target_batch,
                                   a.d_goal, s.batch_size)
           delta_W == Vec([i \in 1..Len(s.W) |->
                          DeltaW(s.W[i], s.last_delta_W[i], nabla_W[i],
                                 IF s.nlg = <<>> THEN <<>> ELSE <<s.nlg[1][i]>>, a)])
       IN [s EXCEPT
             !.W = Vec([i \in 1..Len(s.W) |-> MatSub(s.W[i], delta_W[i])]),
             !.last_delta_W = delta_W,
             !.nlg = IF s.nlg = <<>> THEN <<>>
                     ELSE <<[i \in 1..Len(s.W) |->
                               NlgUpdate(s.nlg[1][i], delta_W[i], s.last_delta_W[i],
                                         a.neural_local_gain[1])]>>,
             !.nabla_W = nabla_W,
             !.fwd_W = Wf,
             !.batches = Append(s.batches, idx),
             !.k_batch = s.k_batch + 1,
             !.pc = IF s.k_batch + 1 = Len(s.idx_batch) THEN "cost" ELSE "batch"]

(***************************************************************************)
(* MLP.train_backprop: set-up, the epoch loop, the costs, the stopping     *)
(* tests and the return                                                    *)
(***************************************************************************)
\* what the last call gave back: kind is "none" (nothing yet), "cost" or
\* "cost_cv" (train_backprop returned), "output" (compute_output returned),
\* "DimensionMismatch" (the exception of compute_output) or "ValueError"
\* (numpy's, from np.dot); call names the method the caller called
Ret(kind, call, cost, cv_cost, value, n_eval) ==
  [kind |-> kind, call |-> call, cost |-> cost, cv_cost |-> cv_cost,
   value |-> value, n_eval |-> n_eval]

NoRet == Ret("none", "", <<>>, <<>>, <<>>, 0)

\* input_data after "if add_bias: input_data = np.c_[ones, input_data]"
TrainInput(a) == IF a.add_bias THEN CBindOnes(a.input_data) ELSE a.input_data

\* do_cv = cv_input_data is not None and cv_output_data is not None
DoCv(a) == a.cv_input_data # <<>> /\ a.cv_output_data # <<>>

\* the statements before the epoch loop
TrainSetup(s, a) ==
  LET input_data == TrainInput(a)
      do_cv == DoCv(a)
  IN [s EXCEPT
        !.pc = "loop",
        !.ret = NoRet,
        !.calls = s.calls + 1,
        !.a = a,
        !.input_data = input_data,
        !.batch_size = IF a.batch_size = <<>> THEN Rows(input_data)
                       ELSE a.batch_size[1],
        !.last_delta_W = [i \in 1..Len(s.W) |-> Zeros(Rows(s.W[i]), Cols(s.W[i]))],
        !.nlg = IF a.neural_local_gain # <<>>
                THEN <<[i \in 1..Len(s.W) |-> Ones(Rows(s.W[i]), Cols(s.W[i]))]>>
                ELSE <<>>,
        !.cost = <<>>,
        !.cv_cost = <<>>,
        !.do_cv = do_cv,
        !.cv_input_data = IF do_cv /\ a.add_bias
                          THEN <<CBindOnes(a.cv_input_data[1])>>
                          ELSE a.cv_input_data,
        !.n_iter = -1,
        !.by_break = FALSE,
        !.idx_data = <<>>, !.idx_batch = <<>>, !.k_batch = 0,
        !.nabla_W = <<>>, !.fwd_W = <<>>, !.batches = <<>>,
        !.W_call = s.W, !.W_epoch = <<>>]

\* the loop with one value too many, range(max_iter + 1)
LoopHasNextInclusive(n_iter, max_iter) == n_iter + 1 <= max_iter

\* "for n_iter in range(max_iter)" has another value after n_iter
LoopHasNext(n_iter, max_iter) == n_iter + 1 < max_iter

\* an epoch start that also clears the momentum buffers
EpochStartResetsMomentum(s, perm) ==
  [s EXCEPT !.n_iter = s.n_iter + 1,
            !.idx_data = perm,
            !.idx_batch = RangeStep(Len(perm), s.batch_size),
            !.k_batch = 0,
            !.batches = <<>>,
            !.last_delta_W = [i \in 1..Len(s.W) |-> Zeros(Rows(s.W[i]), Cols(s.W[i]))],
            !.pc = "batch"]

\* the start of an epoch: the shuffle and the batch offsets
EpochStart(s, perm) ==
  [s EXCEPT !.n_iter = s.n_iter + 1,
            !.idx_data = perm,
            !.idx_batch = RangeStep(Len(perm), s.batch_size),
            !.k_batch = 0,
            !.batches = <<>>,
            !.pc = "batch"]

\* the range is exhausted: the loop ends without a break
LoopEnd(s) == [s EXCEPT !.pc = "return"]

\* sum over the layers of regularization_norm(W[i]), 0.0 without a norm
RegSum(W, a) ==
  IF a.regularization THEN SumSeq([i \in 1..Len(W) |-> regularization_norm(W[i])])
  ELSE 0

\* np.sum(g + reg) / n for the per-example costs g
EpochCost(g, reg, n) == (SumSeq(g) + Len(g) * reg) \div n

\* (1 - stop_threshold) * c[-1] > min(c), stop_threshold in percent
Stagnated(c, stop_threshold) == (100 - stop_threshold) * c[Len(c)] > 100 * MinSeq(c)

\* the test off by one, n_iter >= n_iter_stop_skip
PastSkipInclusive(n_iter, n_iter_stop_skip) == n_iter >= n_iter_stop_skip

\* the test of "if n_iter > n_iter_stop_skip"
PastSkip(n_iter, n_iter_stop_skip) == n_iter > n_iter_stop_skip

\* the stagnation test reading the training costs whatever do_cv is
StagnationHistoryTrainOnly(do_cv, cost, cv_cost) == cost

\* the history the stagnation test reads
StagnationHistory(do_cv, cost, cv_cost) == IF do_cv THEN cv_cost ELSE cost

\* the breaks without the tolerance test
BreaksNoTolerance(n_iter, do_cv, cost, cv_cost, a) ==
  /\ n_iter > a.n_iter_stop_skip
  /\ \/ (100 - a.stop_threshold) * (IF do_cv THEN cv_cost ELSE cost)[
            Len(IF do_cv THEN cv_cost ELSE cost)]
          > 100 * MinSeq(IF do_cv THEN cv_cost ELSE cost)
     \/ cost[Len(cost)] <= a.min_train_cost
     \/ Len(cv_cost) > 0 /\ cv_cost[Len(cv_cost)] <= a.min_cv_cost

\* one of the breaks at the end of the epoch is taken
Breaks(n_iter, do_cv, cost, cv_cost, a) ==
  /\ PastSkip(n_iter, a.n_iter_stop_skip)
  /\ \/ Stagnated(StagnationHistory(do_cv, cost, cv_cost), a.stop_threshold)
     \/ cost[Len(cost)] <= a.min_train_cost
     \/ Len(cv_cost) > 0 /\ cv_cost[Len(cv_cost)] <= a.min_cv_cost
     \/ Len(cost) > 1 /\ Abs(cost[Len(cost)] - cost[Len(cost) - 1]) < a.tolerance

\* cv_goal, goal when the caller passes none
CvGoal(a, t, y) == IF a.cv_goal = <<>> THEN goal(t, y) ELSE abs_goal(t, y)

\* cv_cost after "if do_cv: cv_cost.append(...)"
CvCostAppend(s, cvo) ==
  IF s.do_cv
  THEN Append(s.cv_cost,
              EpochCost(CvGoal(s.a, s.a.cv_output_data[1], cvo.value),
                        RegSum(s.W, s.a), Rows(s.cv_input_data[1])))
  ELSE s.cv_cost

\* the end of an epoch: the costs, then the stopping tests
EpochEnd(s) ==
  LET a == s.a
      out == compute_output(s.W, s.input_data, FALSE)
      cost == Append(s.cost,
                     EpochCost(goal(a.output_data, out.value), RegSum(s.W, a),
                               Rows(s.input_data)))
      cvo == IF s.do_cv THEN compute_output(s.W, s.cv_input_data[1], FALSE)
             ELSE [err |-> FALSE, value |-> <<>>, n_eval |-> 0]
      raised == Ret("DimensionMismatch", "train_backprop", <<>>, <<>>, <<>>, 0)
      W_epoch == Append(s.W_epoch, s.W)
  IN IF out.err THEN [s EXCEPT !.pc = "idle", !.ret = raised, !.W_epoch = W_epoch]
     ELSE IF cvo.err
     THEN [s EXCEPT !.pc = "idle", !.ret = raised, !.cost = cost,
                    !.W_epoch = W_epoch]
     ELSE LET cv_cost == CvCostAppend(s, cvo)
              brk == Breaks(s.n_iter, s.do_cv, cost, cv_cost, a)
          IN [s EXCEPT !.W_epoch = W_epoch,
                       !.cost = cost,
                       !.cv_cost = cv_cost,
                       !.by_break = brk,
                       !.pc = IF brk THEN "return" ELSE "loop"]

\* a return of the training costs alone, whatever do_cv is
ReturnCostOnly(s) ==
  [s EXCEPT !.pc = "idle",
            !.ret = Ret("cost", "train_backprop", s.cost, <<>>, <<>>, 0)]

\* the return statement
Return(s) ==
  [s EXCEPT !.pc = "idle",
            !.ret = IF s.do_cv
                    THEN Ret("cost_cv", "train_backprop", s.cost, s.cv_cost, <<>>, 0)
                    ELSE Ret("cost", "train_backprop", s.cost, <<>>, <<>>, 0)]

\* a call of compute_output from outside
Infer(s, input_data, add_bias) ==
  LET r == compute_output(s.W, input_data, add_bias)
  IN [s EXCEPT !.ret = Ret(IF r.err THEN "DimensionMismatch" ELSE "output",
                           "compute_output", <<>>, <<>>, r.value, r.n_eval)]

\* the object after MLP(input_dimension, layers_structure), no call made yet
NewMLP(input_dimension, layers_structure, seed) ==
  [input_dimension |-> input_dimension,
   layers_structure |-> layers_structure,
   W |-> InitW(input_dimension, layers_structure, seed),
   pc |-> "idle", ret |-> NoRet, calls |-> 0, a |-> <<>>,
   input_data |-> <<>>, batch_size |-> 0, last_delta_W |-> <<>>, nlg |-> <<>>,
   cost |-> <<>>, cv_cost |-> <<>>, do_cv |-> FALSE, cv_input_data |-> <<>>,
   n_iter |-> -1, by_break |-> FALSE, idx_data |-> <<>>, idx_batch |-> <<>>,
   k_batch |-> 0, nabla_W |-> <<>>, fwd_W |-> <<>>, batches |-> <<>>,
   W_call |-> <<>>, W_epoch |-> <<>>]

(***************************************************************************)
(* The callers' inputs                                                     *)
(***************************************************************************)
\* an input matrix of n examples with c feature columns
InputData(n, c) == Mat([i \in 1..n |-> [j \in 1..c |-> (i + j) % 2]])

\* a target matrix of n examples for c output neurons
OutputData(n, c) == Mat([i \in 1..n |-> [j \in 1..c |-> i % 2]])

\* the targets of the cross-validation set
CvOutputData(n, c) == Mat([i \in 1..n |-> [j \in 1..c |-> (i + 1) % 2]])

\* every order np.random.shuffle can leave range(n) in
Perms(n) == {p \in [1..n -> 1..n] : \A i, j \in 1..n : i # j => p[i] # p[j]}

\* the values of batch_size for n examples: None, or 1 .. n + 1
BatchSizes(n) == {<<>>} \cup {<<b>> : b \in 1..(n + 1)}

\* the cross-validation arguments: inputs of width w, targets, cv_goal
CvArgs(n, w, outs, has_in, has_out, own_goal) ==
  [cv_input_data |-> IF has_in THEN <<InputData(n, w)>> ELSE <<>>,
   cv_output_data |-> IF has_out THEN <<CvOutputData(n, outs)>> ELSE <<>>,
   cv_goal |-> IF own_goal THEN <<"abs_goal">> ELSE <<>>]

NoCv == CvArgs(1, 1, 1, FALSE, FALSE, FALSE)

\* the update hyperparameters: momentum_rate, regularization, neural_local_gain, d_goal
Hyper(momentum_rate, regularization, gain, d_goal_name) ==
  [learning_rate |-> 1, momentum_rate |-> momentum_rate,
   regularization_rate |-> 1, regularization |-> regularization,
   neural_local_gain |-> gain, d_goal |-> d_goal_name]

\* the stopping parameters
Stopping(max_iter, n_iter_stop_skip, stop_threshold, min_train_cost, min_cv_cost, tolerance) ==
  [max_iter |-> max_iter, n_iter_stop_skip |-> n_iter_stop_skip,
   stop_threshold |-> stop_threshold, min_train_cost |-> min_train_cost,
   min_cv_cost |-> min_cv_cost, tolerance |-> tolerance]

\* the arguments of one train_backprop call on the network s: n examples of
\* width w, targets for the last layer
TrainArgs(s, n, w, add_bias, batch_size, h, st, cv) ==
  [input_data |-> InputData(n, w),
   output_data |-> OutputData(n, s.layers_structure[Len(s.layers_structure)]),
   add_bias |-> add_bias, batch_size |-> batch_size,
   learning_rate |-> h.learning_rate, momentum_rate |-> h.momentum_rate,
   regularization_rate |-> h.regularization_rate,
   regularization |-> h.regularization,
   neural_local_gain |-> h.neural_local_gain, d_goal |-> h.d_goal,
   max_iter |-> st.max_iter, n_iter_stop_skip |-> st.n_iter_stop_skip,
   stop_threshold |-> st.stop_threshold, min_train_cost |-> st.min_train_cost,
   min_cv_cost |-> st.min_cv_cost, tolerance |-> st.tolerance,
   cv_input_data |-> cv.cv_input_data, cv_output_data |-> cv.cv_output_data,
   cv_goal |-> cv.cv_goal]

\* the widths of a raw input and the add_bias flag: right with the bias added,
\* right with the bias column already there, and one column too many
Widths(s) ==
  {<<s.input_dimension, TRUE>>, <<s.input_dimension + 1, FALSE>>,
   <<s.input_dimension + 1, TRUE>>}

\* the number of output neurons
Outs(s) == s.layers_structure[Len(s.layers_structure)]

MainHyper ==
  {Hyper(0, FALSE, <<>>, "d_xeuclidian"),
   Hyper(1, FALSE, <<>>, "d_cross_entropy"),
   Hyper(1, TRUE, <<>>, "d_xeuclidian"),
   Hyper(1, TRUE, <<<<1, 1, 0, 2>>>>, "d_xeuclidian")}

\* cross-validation sets for a network whose bias-augmented width is right at
\* raw width w: none, one of the right width, one a column too wide, and
\* inputs without targets
CvSets(s, w) ==
  {NoCv,
   CvArgs(2, w, Outs(s), TRUE, TRUE, FALSE),
   CvArgs(2, w + 1, Outs(s), TRUE, TRUE, FALSE),
   CvArgs(2, w, Outs(s), TRUE, FALSE, FALSE)}

\* the calls of the main specification.  First every batch size and every
\* update rule on inputs of the right width; then right and wrong widths of
\* the training and the cross-validation inputs.  The stopping tests are at
\* their strictest (thresholds 0) after one skipped epoch.
MainArgs(s) ==
  (UNION {{TrainArgs(s, n, s.input_dimension, TRUE, bs, h,
                     Stopping(m, 1, 5, 0, 0, 0), NoCv) :
             bs \in BatchSizes(n), h \in MainHyper, m \in 1..2} :
          n \in 1..MaxN})
  \cup
  {TrainArgs(s, 2, wb[1], wb[2], bs, Hyper(0, FALSE, <<>>, "d_xeuclidian"),
             Stopping(m, 1, 5, 0, 0, 0), cv) :
     wb \in Widths(s), bs \in {<<>>, <<1>>}, m \in 0..2,
     cv \in CvSets(s, s.input_dimension)}

\* the calls of the specification of repeated calls
CallsArgs(s) ==
  {TrainArgs(s, 2, s.input_dimension, TRUE, bs, h, Stopping(m, 1, 5, 0, 0, 0), NoCv) :
     bs \in {<<>>, <<1>>}, h \in MainHyper, m \in 1..2}

\* the stopping parameters of the specification of the stopping tests: a
\* minimum cost of -1 and a tolerance of 0 are never met
StopParams ==
  {Stopping(m, k, th, mt, mc, tol) :
     m \in 0..MaxIter, k \in {-1, 0, 1}, th \in {5, 50},
     mt \in {-1, 1}, mc \in {-1, 1}, tol \in {0, 1}}

\* the calls of the specification of the stopping tests: full batches
StopArgs(s) ==
  {TrainArgs(s, 2, s.input_dimension, TRUE, <<>>, h, st, cv) :
     h \in {Hyper(0, FALSE, <<>>, "d_xeuclidian"),
            Hyper(1, TRUE, <<>>, "d_xeuclidian")},
     st \in StopParams,
     cv \in {NoCv,
             CvArgs(2, s.input_dimension, Outs(s), TRUE, TRUE, FALSE),
             CvArgs(1, s.input_dimension, Outs(s), TRUE, TRUE, TRUE),
             CvArgs(2, s.input_dimension, Outs(s), TRUE, FALSE, FALSE)}}

\* the cross-validation arguments of the paired runs: none, a set under the
\* training goal, a larger set under its own cv_goal, inputs without targets
PairCvs(s) ==
  {NoCv,
   CvArgs(2, s.input_dimension, Outs(s), TRUE, TRUE, FALSE),
   CvArgs(3, s.input_dimension, Outs(s), TRUE, TRUE, TRUE),
   CvArgs(2, s.input_dimension, Outs(s), TRUE, FALSE, FALSE)}

\* the calls of the paired runs: a pair of argument lists that agree in
\* everything but the cross-validation arguments, where they differ
PairArgs(s) ==
  {<<TrainArgs(s, 2, s.input_dimension, TRUE, bs, h, st, cvs[1]),
     TrainArgs(s, 2, s.input_dimension, TRUE, bs, h, st, cvs[2])>> :
     bs \in {<<>>, <<1>>},
     h \in {Hyper(0, FALSE, <<>>, "d_xeuclidian"),
            Hyper(1, TRUE, <<<<1, 1, 0, 2>>>>, "d_xeuclidian")},
     st \in {Stopping(m, 0, 5, -1, mc, 0) : m \in 1..3, mc \in {-1, 1}},
     cvs \in {cc \in PairCvs(s) \X PairCvs(s) : cc[1] # cc[2]}}

(***************************************************************************)
(* Actions                                                                 *)
(***************************************************************************)
Nets == DOMAIN net

\* the names a network can have
NetIds == {1, 2}

\* two networks train side by side on the same shuffles
Paired == Cardinality(Nets) > 1

TrainBackpropCall(id, args, max_calls) ==
  /\ id \in Nets
  /\ net[id].pc = "idle"
  /\ net[id].calls < max_calls
  /\ \E a \in args : net' = [net EXCEPT ![id] = TrainSetup(@, a)]
  /\ UNCHANGED shuffles

\* the shuffle of epoch k (counted from 1) is free for the first network that
\* reaches the epoch; the other network of a pair gets the same order
EpochStartStep(id) ==
  /\ id \in Nets
  /\ net[id].pc = "loop"
  /\ LoopHasNext(net[id].n_iter, net[id].a.max_iter)
  /\ LET k == net[id].n_iter + 2
     IN \E perm \in Perms(Rows(net[id].input_data)) :
          /\ Paired /\ k <= Len(shuffles) => perm = shuffles[k]
          /\ net' = [net EXCEPT ![id] = EpochStart(@, perm)]
          /\ shuffles' = IF Paired /\ k > Len(shuffles)
                         THEN Append(shuffles, perm) ELSE shuffles

LoopEndStep(id) ==
  /\ id \in Nets
  /\ net[id].pc = "loop"
  /\ ~LoopHasNext(net[id].n_iter, net[id].a.max_iter)
  /\ net' = [net EXCEPT ![id] = LoopEnd(@)]
  /\ UNCHANGED shuffles

BatchUpdateStep(id) ==
  /\ id \in Nets
  /\ net[id].pc = "batch"
  /\ net' = [net EXCEPT ![id] = BatchStep(@)]
  /\ UNCHANGED shuffles

EpochEndStep(id) ==
  /\ id \in Nets
  /\ net[id].pc = "cost"
  /\ net' = [net EXCEPT ![id] = EpochEnd(@)]
  /\ UNCHANGED shuffles

ReturnStep(id) ==
  /\ id \in Nets
  /\ net[id].pc = "return"
  /\ net' = [net EXCEPT ![id] = Return(@)]
  /\ UNCHANGED shuffles

ComputeOutputCall(id) ==
  /\ id \in Nets
  /\ net[id].pc = "idle"
  /\ \E n \in 1..2, wb \in Widths(net[id]) :
        net' = [net EXCEPT ![id] = Infer(@, InputData(n, wb[1]), wb[2])]
  /\ UNCHANGED shuffles

InputDimensions == {1, 2}

LayersStructures == {<<1>>, <<2, 1>>, <<1, 2>>}

Init ==
  /\ \E input_dimension \in InputDimensions, layers_structure \in LayersStructures :
        net = [id \in {1} |-> NewMLP(input_dimension, layers_structure, 0)]
  /\ shuffles = <<>>

\* main specification: one train_backprop call on a fresh network
Next ==
  \E id \in NetIds :
    \/ TrainBackpropCall(id, MainArgs(net[id]), 1)
    \/ EpochStartStep(id)
    \/ LoopEndStep(id)
    \/ BatchUpdateStep(id)
    \/ EpochEndStep(id)
    \/ ReturnStep(id)
    \/ ComputeOutputCall(id)

Spec == Init /\ [][Next]_vars

\* repeated calls on the same network
NextCalls ==
  \E id \in NetIds :
    \/ TrainBackpropCall(id, CallsArgs(net[id]), MaxCalls)
    \/ EpochStartStep(id)
    \/ LoopEndStep(id)
    \/ BatchUpdateStep(id)
    \/ EpochEndStep(id)
    \/ ReturnStep(id)
    \/ ComputeOutputCall(id)

SpecCalls == Init /\ [][NextCalls]_vars

\* the stopping tests
NextStop ==
  \E id \in NetIds :
    \/ TrainBackpropCall(id, StopArgs(net[id]), 1)
    \/ EpochStartStep(id)
    \/ LoopEndStep(id)
    \/ BatchUpdateStep(id)
    \/ EpochEndStep(id)
    \/ ReturnStep(id)
    \/ ComputeOutputCall(id)

SpecStop == Init /\ [][NextStop]_vars

\* two networks built alike (the same seed, so the same weights)
InitPair ==
  /\ \E input_dimension \in InputDimensions, layers_structure \in LayersStructures :
        net = [id \in NetIds |-> NewMLP(input_dimension, layers_structure, 0)]
  /\ shuffles = <<>>

\* train_backprop is called on both networks of the pair
PairCall ==
  /\ Nets = NetIds
  /\ \A id \in Nets : net[id].pc = "idle" /\ net[id].calls = 0
  /\ \E aa \in PairArgs(net[1]) :
        net' = [id \in Nets |-> TrainSetup(net[id], aa[id])]
  /\ UNCHANGED shuffles

\* two runs of train_backprop side by side
NextPair ==
  \/ PairCall
  \/ \E id \in NetIds :
       \/ EpochStartStep(id)
       \/ LoopEndStep(id)
       \/ BatchUpdateStep(id)
       \/ EpochEndStep(id)
       \/ ReturnStep(id)

SpecPair == InitPair /\ [][NextPair]_vars

(***************************************************************************)
(* Claims                                                                  *)
(***************************************************************************)
\* train_backprop has been called on the network
Called(s) == s.calls > 0

\* train_backprop gave back its cost histories
Returned(s) == s.ret.kind \in {"cost", "cost_cv"}

\* the stopping tests of epoch s.n_iter have just been passed
Evaluated(s) == Called(s) /\ s.pc \in {"loop", "return"} /\ s.n_iter >= 0

Last(c) == c[Len(c)]

\* the stagnation test of the claims on a cost history c
StagnationTest(c, a) == (100 - a.stop_threshold) * Last(c) > 100 * MinSeq(c)

\* cross-validation data (inputs and targets) is supplied
CvSupplied(a) == a.cv_input_data # <<>> /\ a.cv_output_data # <<>>

\* the three other stopping conditions of the claims
MinTrainMet(s) == Last(s.cost) <= s.a.min_train_cost

MinCvMet(s) == CvSupplied(s.a) /\ Last(s.cv_cost) <= s.a.min_cv_cost

ToleranceMet(s) ==
  Len(s.cost) >= 2 /\ Abs(s.cost[Len(s.cost)] - s.cost[Len(s.cost) - 1]) < s.a.tolerance

\* C1: train_backprop runs at most max_iter epochs: the cost history never has
\* more than max_iter entries, during the call and in what it returns, also
\* when no early-stop criterion fires.
C1_AtMostMaxIter ==
  \A id \in Nets :
    LET s == net[id]
    IN Called(s) =>
         /\ Len(s.cost) <= s.a.max_iter
         /\ s.n_iter < s.a.max_iter
         /\ (Returned(s) => Len(s.ret.cost) <= s.a.max_iter)

\* a call that ran max_iter = MaxIter epochs without any criterion firing
C1_Witness ==
  \E id \in Nets :
    LET s == net[id]
    IN /\ Called(s) /\ Returned(s) /\ ~s.by_break
       /\ s.a.max_iter = MaxIter /\ Len(s.ret.cost) = MaxIter

\* C2: no early stop is taken at an epoch whose index is <= n_iter_stop_skip,
\* so a returned cost history shorter than max_iter has more than
\* n_iter_stop_skip entries.
C2_SkipRespected ==
  \A id \in Nets :
    LET s == net[id]
    IN Called(s) =>
         /\ (s.by_break => s.n_iter > s.a.n_iter_stop_skip)
         /\ (Returned(s) /\ Len(s.ret.cost) < s.a.max_iter)
              => Len(s.ret.cost) > s.a.n_iter_stop_skip

\* an early return after the skipped epochs although the cost was already
\* <= min_train_cost in every epoch, the first one included
C2_Witness ==
  \E id \in Nets :
    LET s == net[id]
    IN /\ Called(s) /\ Returned(s) /\ s.a.n_iter_stop_skip = 1
       /\ Len(s.ret.cost) = 3 /\ Len(s.ret.cost) < s.a.max_iter
       /\ s.ret.cost[1] <= s.a.min_train_cost

\* C3: after an epoch with index > n_iter_stop_skip the stagnation test is
\* applied to the cross-validation history when cross-validation is active and
\* to the training history otherwise, and training returns right after the
\* epoch when it holds; with cross-validation active a stagnating training
\* cost alone does not stop the training.
C3_Stagnation ==
  \A id \in Nets :
    LET s == net[id]
    IN (Evaluated(s) /\ s.n_iter > s.a.n_iter_stop_skip) =>
         /\ (CvSupplied(s.a) /\ StagnationTest(s.cv_cost, s.a))
              => (s.by_break /\ s.pc = "return")
         /\ (~CvSupplied(s.a) /\ StagnationTest(s.cost, s.a))
              => (s.by_break /\ s.pc = "return")
         /\ (CvSupplied(s.a) /\ ~StagnationTest(s.cv_cost, s.a)
               /\ ~MinTrainMet(s) /\ ~MinCvMet(s) /\ ~ToleranceMet(s))
              => ~s.by_break

\* cross-validation active, the training cost stagnated after the skipped
\* epochs, and the training goes on
C3_Witness ==
  \E id \in Nets :
    LET s == net[id]
    IN /\ Evaluated(s) /\ s.n_iter > s.a.n_iter_stop_skip
       /\ CvSupplied(s.a) /\ StagnationTest(s.cost, s.a)
       /\ s.pc = "loop" /\ s.n_iter + 1 < s.a.max_iter

\* C4: after an epoch with index > n_iter_stop_skip training returns right
\* after the epoch if cost[last] <= min_train_cost, or cross-validation is
\* active and cv_cost[last] <= min_cv_cost, or the training cost changed by
\* less than tolerance; if none of these nor the stagnation test holds and
\* fewer than max_iter epochs have run, it goes on with another epoch.
C4_OtherStops ==
  \A id \in Nets :
    LET s == net[id]
    IN (Evaluated(s) /\ s.n_iter > s.a.n_iter_stop_skip) =>
         /\ (MinTrainMet(s) \/ MinCvMet(s) \/ ToleranceMet(s))
              => (s.by_break /\ s.pc = "return")
         /\ (~MinTrainMet(s) /\ ~MinCvMet(s) /\ ~ToleranceMet(s)
               /\ ~StagnationTest(IF CvSupplied(s.a) THEN s.cv_cost ELSE s.cost, s.a)
               /\ Len(s.cost) < s.a.max_iter)
              => (~s.by_break /\ s.pc = "loop")

\* a return forced by the tolerance alone
C4_Witness ==
  \E id \in Nets :
    LET s == net[id]
    IN /\ Evaluated(s) /\ s.by_break /\ ToleranceMet(s)
       /\ ~MinTrainMet(s) /\ ~MinCvMet(s)
       /\ ~StagnationTest(IF CvSupplied(s.a) THEN s.cv_cost ELSE s.cost, s.a)

\* C5: with cross-validation data supplied the cross-validation history has as
\* many entries as the training history at the end of every epoch and at
\* return, and both are returned; without it only the training history is.
C5_CvHistory ==
  \A id \in Nets :
    LET s == net[id]
    IN Called(s) =>
         /\ (CvSupplied(s.a) /\ s.pc \in {"loop", "batch", "cost", "return"})
              => Len(s.cv_cost) = Len(s.cost)
         /\ (CvSupplied(s.a) /\ Returned(s))
              => (s.ret.kind = "cost_cv" /\ Len(s.ret.cv_cost) = Len(s.ret.cost))
         /\ (~CvSupplied(s.a) /\ Returned(s))
              => (s.ret.kind = "cost" /\ s.ret.cv_cost = <<>> /\ s.cv_cost = <<>>)

\* both histories returned after several epochs
C5_Witness ==
  \E id \in Nets :
    LET s == net[id]
    IN /\ Called(s) /\ s.ret.kind = "cost_cv"
       /\ Len(s.ret.cost) >= 2 /\ Len(s.ret.cv_cost) = Len(s.ret.cost)

\* C6: W[0] has 1 + input_dimension columns, W[i] has 1 + rows(W[i-1]) columns
\* for i > 0 and W[i] has layers_structure[i] rows, after construction and
\* after every step of every call; training never changes a matrix's shape.
C6_Shapes ==
  \A id \in Nets :
    LET s == net[id]
    IN /\ Len(s.W) = Len(s.layers_structure)
       /\ \A i \in 1..Len(s.W) :
            /\ Len(s.W[i]) = s.layers_structure[i]
            /\ \A r \in 1..Len(s.W[i]) :
                 Len(s.W[i][r]) =
                   1 + (IF i = 1 THEN s.input_dimension ELSE Len(s.W[i - 1]))
       /\ Called(s) =>
            /\ Len(s.W) = Len(s.W_call)
            /\ \A i \in 1..Len(s.W) : Shape(s.W[i]) = Shape(s.W_call[i])

\* a two-layer network in the middle of an epoch of its second training call,
\* its weights changed by a batch update
C6_Witness ==
  \E id \in Nets :
    LET s == net[id]
    IN /\ s.calls = 2 /\ s.pc = "batch" /\ s.k_batch >= 1
       /\ Len(s.W) = 2 /\ s.W # s.W_call

\* C7: a dimension mismatch is raised before any computation: compute_output
\* evaluates no layer, and train_backprop fails, for mismatched training or
\* cross-validation inputs, with the weights as they were at the call.
C7_FailsBeforeComputation ==
  \A id \in Nets :
    LET s == net[id]
    IN /\ (s.ret.kind = "DimensionMismatch" /\ s.ret.call = "compute_output")
            => s.ret.n_eval = 0
       /\ (s.ret.kind \in {"DimensionMismatch", "ValueError"}
             /\ s.ret.call = "train_backprop")
            => s.W = s.W_call

\* a batch update took the network from s to t
BatchApplied(s, t) ==
  s.pc = "batch" /\ t.pc \in {"batch", "cost"} /\ t.k_batch = s.k_batch + 1

\* how often the example index x occurs in the batches of the epoch
Occurrences(batches, x) ==
  Cardinality({bk \in {<<b, k>> \in (1..Len(batches)) \X (1..MaxN + 2) :
                         k <= Len(batches[b])} :
                 batches[bk[1]][bk[2]] = x})

RECURSIVE Concat(_)
Concat(ss) == IF ss = <<>> THEN <<>> ELSE Head(ss) \o Concat(Tail(ss))

C9_Partition(s) ==
  LET n == Rows(s.input_data)
      bs == s.batch_size
      count == (n + bs - 1) \div bs
  IN (Called(s) /\ s.pc \in {"batch", "cost"} /\ bs \in 1..n) =>
       /\ Len(s.batches) <= count
       /\ Concat(s.batches) = SubSeq(s.idx_data, 1, Len(Concat(s.batches)))
       /\ \A b \in 1..Len(s.batches) : b < count => Len(s.batches[b]) = bs
       /\ \A x \in 1..n : Occurrences(s.batches, x) <= 1
       /\ s.pc = "cost" =>
            /\ Len(s.batches) = count
            /\ \A x \in 1..n : Occurrences(s.batches, x) = 1
            /\ s.a.batch_size = <<>> =>
                 (Len(s.batches) = 1 /\ Len(s.batches[1]) = n)

\* C9: in every epoch, for batch_size in 1..N, the shuffled indices are cut
\* into ceil(N / batch_size) consecutive batches, every index in exactly one
\* batch, every batch but the last of batch_size examples (one batch of all N
\* examples when batch_size is not given), and the forward pass of a batch
\* reads the weights left by the update of the batch before it.
C9_Batches ==
  /\ [](\A id \in Nets : C9_Partition(net[id]))
  /\ [][\A id \in Nets :
          BatchApplied(net[id], net'[id]) => net'[id].fwd_W = net[id].W]_vars

\* an epoch of 3 examples in batches of 2 has run: a full batch, then a short one
C9_Witness ==
  \E id \in Nets :
    LET s == net[id]
    IN /\ Called(s) /\ s.pc = "cost" /\ Rows(s.input_data) = 3 /\ s.batch_size = 2
       /\ Len(s.batches) = 2 /\ Len(s.batches[2]) = 1 /\ s.n_iter = 1

Sign(x) == IF x > 0 THEN 1 ELSE IF x < 0 THEN -1 ELSE 0

\* the update of one weight, from the state s before the batch and the
\* gradient nabla_W the batch computed
DeltaEntry(s, nabla_W, i, r, c) ==
  LET a == s.a
      rate == IF a.neural_local_gain = <<>> THEN a.learning_rate
              ELSE a.learning_rate * s.nlg[1][i][r][c]
      reg == IF a.regularization
             THEN a.regularization_rate * (IF c = 1 THEN 0 ELSE Sign(s.W[i][r][c]))
             ELSE 0
  IN rate * (a.momentum_rate * s.last_delta_W[i][r][c] + nabla_W[i][r][c] + reg)

C10_Step(s, t) ==
  /\ (s.pc = "idle" /\ t.pc = "loop") =>
       /\ Len(t.last_delta_W) = Len(s.W)
       /\ \A i \in 1..Len(s.W) : \A r \in 1..Rows(s.W[i]) : \A c \in 1..Cols(s.W[i]) :
            t.last_delta_W[i][r][c] = 0
  /\ BatchApplied(s, t) =>
       \A i \in 1..Len(s.W) : \A r \in 1..Rows(s.W[i]) : \A c \in 1..Cols(s.W[i]) :
         /\ t.last_delta_W[i][r][c] = DeltaEntry(s, t.nabla_W, i, r, c)
         /\ t.W[i][r][c] = s.W[i][r][c] - t.last_delta_W[i][r][c]
  /\ (~BatchApplied(s, t) /\ ~(s.pc = "idle" /\ t.pc = "loop")) =>
       t.last_delta_W = s.last_delta_W

\* C10: every batch applies delta = rate * (momentum_rate * last_delta +
\* gradient + regularization term) to every layer, weights become weights -
\* delta and last_delta becomes delta; last_delta is all zeros at the start of
\* every train_backprop call and is changed by nothing but a batch update, so
\* it is carried over epoch boundaries.
C10_UpdateRule == [][\A id \in Nets : C10_Step(net[id], net'[id])]_vars

\* the second call on a network, at the start of its second epoch, with
\* momentum and a non-zero last delta carried over from the first epoch
C10_Witness ==
  \E id \in Nets :
    LET s == net[id]
    IN /\ s.calls = 2 /\ s.pc = "batch" /\ s.n_iter = 1 /\ s.k_batch = 0
       /\ s.a.momentum_rate = 1
       /\ \E i \in 1..Len(s.W) : \E r \in 1..Rows(s.W[i]) : \E c \in 1..Cols(s.W[i]) :
            s.last_delta_W[i][r][c] # 0

\* the arguments a and b differ in nothing but the cross-validation arguments
SameButCv(a, b) ==
  [a EXCEPT !.cv_input_data = <<>>, !.cv_output_data = <<>>, !.cv_goal = <<>>]
    = [b EXCEPT !.cv_input_data = <<>>, !.cv_output_data = <<>>, !.cv_goal = <<>>]

\* C8: two train_backprop runs from the same weights, with the same training
\* data, hyperparameters and shuffles, differing only in the cross-validation
\* inputs, targets and cv_goal (or their absence), have the same weights after
\* the k-th epoch, for every k both runs execute.
C8_CvNeverInWeights ==
  (/\ Paired
   /\ Called(net[1]) /\ Called(net[2])
   /\ net[1].W_call = net[2].W_call
   /\ SameButCv(net[1].a, net[2].a))
  => \A k \in 1..Min2(Len(net[1].W_epoch), Len(net[2].W_epoch)) :
       net[1].W_epoch[k] = net[2].W_epoch[k]

\* both runs returned, after different numbers of epochs, at least two of
\* them in common, on different cross-validation arguments, the weights
\* changed by the training
C8_Witness ==
  /\ Paired
  /\ Returned(net[1]) /\ Returned(net[2])
  /\ net[1].a # net[2].a /\ SameButCv(net[1].a, net[2].a)
  /\ Len(net[1].W_epoch) # Len(net[2].W_epoch)
  /\ Min2(Len(net[1].W_epoch), Len(net[2].W_epoch)) >= 2
  /\ net[1].W_epoch[2] # net[1].W_call
  /\ net[1].W_epoch[2] # net[1].W_epoch[1]

====
